---- MODULE Spec2Model ----
(***************************************************************************)
(* Blog-CLI: a post is a directory holding content.md and metadata.toml.   *)
(* The model keeps the in-memory Post of the running command, the          *)
(* filesystem under the working directory, and the position of the         *)
(* multi-step operations (build, header fetch, tag and keyword commands).  *)
(***************************************************************************)
EXTENDS Integers, Sequences, FiniteSets, TLC

VARIABLES
    fs,     \* the filesystem: path (sequence of components) -> node
    post,   \* the Post held by the running command, or NoPost
    pc,     \* position of the running operation ("idle" between operations)
    ret,    \* what the last operation was called with and what it returned
    work,   \* locals of the running fetch / build / command
    net     \* requests sent to the image service by the last fetch

vars == <<fs, post, pc, ret, work, net>>

---------------------------------------------------------------------------
(* Bounds *)

\* largest number of picture descriptors in one search response
MaxPhotos == 2
\* largest timestamp Utc::now() returns
MaxTime == 2

Words == {"rust", "Rust"}
KeyWords == {"sea", "sky"}
Times == 1..MaxTime
Titles == {<<"M", "y", " ", "P", "!">>}
Clock == {[year |-> 987, month |-> 3]}

---------------------------------------------------------------------------
(* Option<T>, Result<T, String> *)

None == <<>>
Some(v) == <<v>>

Ok(v) == [ok |-> TRUE, err |-> "", val |-> v]
Err(e, v) == [ok |-> FALSE, err |-> e, val |-> v]

---------------------------------------------------------------------------
(* Filesystem *)

Dir == [kind |-> "dir"]
File(d) == [kind |-> "file", data |-> d]

EmptyFs == [p \in {} |-> Dir]

Exists(f, p) == p \in DOMAIN f
IsFile(f, p) == p \in DOMAIN f /\ f[p].kind = "file"
IsDir(f, p) == p \in DOMAIN f /\ f[p].kind = "dir"

Join(p, name) == Append(p, name)
Parent(p) == SubSeq(p, 1, Len(p) - 1)
Prefixes(p) == {SubSeq(p, 1, n) : n \in 1..Len(p)}
IsUnder(p, d) == Len(p) > Len(d) /\ SubSeq(p, 1, Len(d)) = d

\* DirBuilder::new().recursive(true).create(path) / fs::create_dir_all
CreateDirAll(f, p) ==
    IF \E q \in Prefixes(p) : IsFile(f, q)
    THEN Err("Failed to create directory", f)
    ELSE Ok([q \in DOMAIN f \cup Prefixes(p) |-> IF q \in DOMAIN f THEN f[q] ELSE Dir])

\* utils::create_path: nothing to do when the path exists
create_path(f, p, fault) ==
    IF Exists(f, p) THEN Ok(f)
    ELSE IF fault THEN Err("Failed to create directory", f)
    ELSE CreateDirAll(f, p)

\* fs::write that leaves an existing file as it is
FsWriteKeepsOld(f, p, d, fault) ==
    IF fault \/ IsDir(f, p) \/ ~(Parent(p) = <<>> \/ IsDir(f, Parent(p)))
    THEN Err("io", f)
    ELSE Ok(f @@ (p :> File(d)))

\* std::fs::write: creates or truncates the file, whole content replaced
FsWrite(f, p, d, fault) ==
    IF fault \/ IsDir(f, p) \/ ~(Parent(p) = <<>> \/ IsDir(f, Parent(p)))
    THEN Err("io", f)
    ELSE Ok((p :> File(d)) @@ f)

\* std::fs::read_to_string
FsRead(f, p) ==
    IF IsFile(f, p) THEN Ok(f[p].data) ELSE Err("io", None)

\* std::fs::copy: the destination gets the source's content
FsCopy(f, src, dst) ==
    IF ~IsFile(f, src) THEN Err("io", f) ELSE FsWrite(f, dst, f[src].data, FALSE)

---------------------------------------------------------------------------
(* File contents *)

Text(s) == [fmt |-> "text", text |-> s]
Toml(doc) == [fmt |-> "toml", doc |-> doc]
Junk == [fmt |-> "junk"]
Jpg(b) == [fmt |-> "jpg", bytes |-> b]

\* chrono's serde form of DateTime<Utc>: an RFC 3339 string
Rfc3339(t) == "1970-01-01T00:00:0" \o ToString(t) \o "Z"
IsRfc3339(s) == \E t \in Times : Rfc3339(t) = s
ParseRfc3339(s) == CHOOSE t \in Times : Rfc3339(t) = s

OptKeys(o, key) == IF o = None THEN {} ELSE {key}

\* toml::to_string(&PostInfo): a None field is left out of the table
SerPostInfo(p) ==
    [k \in {"title", "author", "tags"}
           \cup OptKeys(p.published_date, "published_date")
           \cup OptKeys(p.update, "update") |->
        CASE k = "title" -> p.title
          [] k = "author" -> p.author
          [] k = "tags" -> p.tags
          [] k = "published_date" -> Rfc3339(p.published_date[1])
          [] k = "update" -> Rfc3339(p.update[1])]

SerOpenGraph(o) ==
    [k \in {"short", "opengraphimage", "description", "keywords"} |->
        CASE k = "short" -> o.short
          [] k = "opengraphimage" -> o.opengraphimage
          [] k = "description" -> o.description
          [] k = "keywords" -> o.keywords]

\* toml::to_string(&self.metadata)
SerMetadata(m) ==
    Toml([k \in {"post", "opengraph"} |->
            IF k = "post" THEN SerPostInfo(m.post) ELSE SerOpenGraph(m.opengraph)])

OptField(tbl, key) == IF key \in DOMAIN tbl THEN Some(ParseRfc3339(tbl[key])) ELSE None

\* what serde's derived Deserialize accepts: every non-Option field present
ParsesAsMetadata(d) ==
    /\ d.fmt = "toml"
    /\ {"post", "opengraph"} \subseteq DOMAIN d.doc
    /\ {"title", "author", "tags"} \subseteq DOMAIN d.doc["post"]
    /\ {"short", "opengraphimage", "description", "keywords"} \subseteq DOMAIN d.doc["opengraph"]
    /\ \A k \in {"published_date", "update"} \cap DOMAIN d.doc["post"] :
            IsRfc3339(d.doc["post"][k])

\* toml::from_str::<Metadata>
ParseMetadata(d) ==
    IF ~ParsesAsMetadata(d) THEN Err("Failed to parse metadata file", None)
    ELSE Ok([post |-> [title |-> d.doc["post"]["title"],
                       author |-> d.doc["post"]["author"],
                       published_date |-> OptField(d.doc["post"], "published_date"),
                       update |-> OptField(d.doc["post"], "update"),
                       tags |-> d.doc["post"]["tags"]],
             opengraph |-> [short |-> d.doc["opengraph"]["short"],
                            opengraphimage |-> d.doc["opengraph"]["opengraphimage"],
                            description |-> d.doc["opengraph"]["description"],
                            keywords |-> d.doc["opengraph"]["keywords"]]])

---------------------------------------------------------------------------
(* Post::new *)

RECURSIVE Concat(_)
Concat(s) == IF s = <<>> THEN "" ELSE Head(s) \o Concat(Tail(s))

RECURSIVE ZeroPad(_, _)
ZeroPad(s, width) == IF Len(s) >= width THEN s ELSE ZeroPad("0" \o s, width)

\* format!("{}", n): no width, no fill
FormatPlain(n, width) == ToString(n)

\* format!("{:04}", n), format!("{:02}", n)
FormatWidth(n, width) == ZeroPad(ToString(n), width)

ToLower(c) == CASE c = "M" -> "m" [] c = "P" -> "p" [] OTHER -> c
IsSlugChar(c) == c \in {"m", "y", "p", "o", "s", "t", "0", "1"}

\* the scan of slugify!: letters and digits are kept, every run of anything
\* else becomes one separator, none at the start
RECURSIVE SlugScan(_, _)
SlugScan(s, is_sep) ==
    IF s = <<>> THEN <<>>
    ELSE IF IsSlugChar(ToLower(Head(s)))
         THEN <<ToLower(Head(s))>> \o SlugScan(Tail(s), FALSE)
         ELSE IF is_sep THEN SlugScan(Tail(s), TRUE)
              ELSE <<"-">> \o SlugScan(Tail(s), TRUE)

\* slugify!(title): the scan, with a trailing separator popped
Slugify(title) ==
    LET slug == SlugScan(title, TRUE)
    IN Concat(IF slug # <<>> /\ slug[Len(slug)] = "-"
              THEN SubSeq(slug, 1, Len(slug) - 1) ELSE slug)

DefaultMetadata ==
    [post |-> [title |-> "", author |-> "", published_date |-> None,
               update |-> None, tags |-> <<>>],
     opengraph |-> [short |-> "", opengraphimage |-> "", description |-> "",
                    keywords |-> <<>>]]

with_title(m, title) == [m EXCEPT !.post.title = title]

NoPost == [none |-> TRUE]

\* PathBuf::push of a relative name: an empty name adds no component
PathPush(p, name) == IF name = "" THEN p ELSE Append(p, name)

PostNew(title, today) ==
    [content |-> "# " \o Concat(title),
     path |-> PathPush(PathPush(PathPush(<<>>, FormatWidth(today.year, 4)),
                                FormatWidth(today.month, 2)),
                       Slugify(title)),
     metadata |-> with_title(DefaultMetadata, Concat(title))]

---------------------------------------------------------------------------
(* Post::load *)

\* load that falls back to Metadata::default() when the file does not parse
PostLoadLenient(f, path) ==
    IF ~Exists(f, path) THEN Err("Blog post does not exist", NoPost)
    ELSE LET content == FsRead(f, Join(path, "content.md"))
             metadata_toml == FsRead(f, Join(path, "metadata.toml"))
         IN IF ~content.ok THEN Err("Failed to read content file", NoPost)
            ELSE IF ~metadata_toml.ok THEN Err("Failed to read metadata file", NoPost)
            ELSE LET metadata == ParseMetadata(metadata_toml.val)
                 IN Ok([content |-> content.val.text, path |-> path,
                        metadata |-> IF metadata.ok THEN metadata.val
                                     ELSE DefaultMetadata])

PostLoad(f, path) ==
    IF ~Exists(f, path) THEN Err("Blog post does not exist", NoPost)
    ELSE LET content == FsRead(f, Join(path, "content.md"))
             metadata_toml == FsRead(f, Join(path, "metadata.toml"))
         IN IF ~content.ok THEN Err("Failed to read content file", NoPost)
            ELSE IF ~metadata_toml.ok THEN Err("Failed to read metadata file", NoPost)
            ELSE LET metadata == ParseMetadata(metadata_toml.val)
                 IN IF ~metadata.ok THEN Err(metadata.err, NoPost)
                    ELSE Ok([content |-> content.val.text, path |-> path,
                             metadata |-> metadata.val])

---------------------------------------------------------------------------
(* Post::save *)

SaveFaults == {"none", "create_path", "create_images", "write_content", "write_metadata"}

PostSave(f, p, fault) ==
    LET r1 == create_path(f, p.path, fault = "create_path")
    IN IF ~r1.ok THEN r1
       ELSE LET r2 == create_path(r1.val, Join(p.path, "images"), fault = "create_images")
            IN IF ~r2.ok THEN Err(r2.err, r2.val)
               ELSE LET r3 == FsWrite(r2.val, Join(p.path, "content.md"), Text(p.content),
                                      fault = "write_content")
                    IN IF ~r3.ok THEN Err("Failed to write content file", r3.val)
                       ELSE LET r4 == FsWrite(r3.val, Join(p.path, "metadata.toml"),
                                              SerMetadata(p.metadata),
                                              fault = "write_metadata")
                            IN IF ~r4.ok THEN Err("Failed to write metadata file", r4.val)
                               ELSE Ok(r4.val)

---------------------------------------------------------------------------
(* PostInfo::add_tag / remove_tag, OpenGraph::add_keyword / remove_keyword *)

Contains(list, x) == \E i \in 1..Len(list) : list[i] = x
Position(list, x) == CHOOSE i \in 1..Len(list) :
                        list[i] = x /\ \A j \in 1..(i - 1) : list[j] # x
VecRemove(list, i) == SubSeq(list, 1, i - 1) \o SubSeq(list, i + 1, Len(list))

\* format!("Tag `{tag}` is already attached to this blog post"), the message
\* of add and of remove alike; the backquotes of the text are written '
already_attached(what, value) ==
    what \o " '" \o value \o "' is already attached to this blog post"

\* add_tag with insert(0, tag) for push(tag)
add_tag_front(tags, tag) ==
    IF Contains(tags, tag)
    THEN Err(already_attached("Tag", tag), tags)
    ELSE Ok(<<tag>> \o tags)

add_tag(tags, tag) ==
    IF Contains(tags, tag)
    THEN Err(already_attached("Tag", tag), tags)
    ELSE Ok(Append(tags, tag))

\* remove_tag with retain(|x| x != tag) for remove(index)
remove_tag_all(tags, tag) ==
    IF Contains(tags, tag)
    THEN Ok(SelectSeq(tags, LAMBDA x : x # tag))
    ELSE Err(already_attached("Tag", tag), tags)

remove_tag(tags, tag) ==
    IF Contains(tags, tag)
    THEN Ok(VecRemove(tags, Position(tags, tag)))
    ELSE Err(already_attached("Tag", tag), tags)

add_keyword(keywords, keyword) ==
    IF Contains(keywords, keyword)
    THEN Err(already_attached("Keyword", keyword), keywords)
    ELSE Ok(Append(keywords, keyword))

remove_keyword(keywords, keyword) ==
    IF Contains(keywords, keyword)
    THEN Ok(VecRemove(keywords, Position(keywords, keyword)))
    ELSE Err(already_attached("Keyword", keyword), keywords)

---------------------------------------------------------------------------
(* The post directory of the model and the disks a command may find *)

ThePost == PostNew(CHOOSE t \in Titles : TRUE, CHOOSE c \in Clock : TRUE)
PostPath == ThePost.path
Nowhere == <<"nowhere">>

SavedDisk(p) == PostSave(EmptyFs, p, "none").val

\* metadata.toml as an author edits it by hand: fields no command sets
EditedMetadata ==
    [post |-> [title |-> "My P!", author |-> "ann", published_date |-> Some(1),
               update |-> None, tags |-> <<"rust", "Rust", "rust">>],
     opengraph |-> [short |-> "s", opengraphimage |-> "", description |-> "d",
                    keywords |-> <<"sea">>]]

Without(f, p) == [q \in DOMAIN f \ {p} |-> f[q]]
DropKey(tbl, key) == [k \in DOMAIN tbl \ {key} |-> tbl[k]]

MissingKeywords ==
    LET doc == SerMetadata(DefaultMetadata).doc
    IN Toml([doc EXCEPT !["opengraph"] = DropKey(@, "keywords")])

InitialDisks ==
    LET saved == SavedDisk(ThePost)
        meta == Join(PostPath, "metadata.toml")
    IN { EmptyFs,
         saved,
         SavedDisk([ThePost EXCEPT !.metadata = EditedMetadata, !.content = "hello"]),
         Without(saved, Join(PostPath, "content.md")),
         Without(saved, meta),
         (meta :> File(Junk)) @@ saved,
         (meta :> File(MissingKeywords)) @@ saved }

---------------------------------------------------------------------------
(* Commands on the post's metadata *)

Call(op, arg, r) == [op |-> op, arg |-> arg, ok |-> r.ok, err |-> r.err]

Running(op, arg) == [op |-> op, arg |-> arg, ok |-> FALSE, err |-> "running"]

Idle == pc = "idle"
Tags(p) == p.metadata.post.tags
Keywords(p) == p.metadata.opengraph.keywords
Loaded == post # NoPost

New(title, today) ==
    /\ Idle
    /\ post' = PostNew(title, today)
    /\ ret' = [op |-> "new", arg |-> title, ok |-> TRUE, err |-> "", today |-> today]
    /\ UNCHANGED <<fs, pc, work, net>>

Load(path) ==
    /\ Idle
    /\ LET r == PostLoad(fs, path)
       IN /\ post' = r.val
          /\ ret' = Call("load", path, r)
    /\ UNCHANGED <<fs, pc, work, net>>

AddTag(tag) ==
    /\ Idle /\ Loaded
    /\ LET r == add_tag(post.metadata.post.tags, tag)
       IN /\ post' = [post EXCEPT !.metadata.post.tags = r.val]
          /\ ret' = Call("add_tag", tag, r)
    /\ UNCHANGED <<fs, pc, work, net>>

RemoveTag(tag) ==
    /\ Idle /\ Loaded
    /\ LET r == remove_tag(post.metadata.post.tags, tag)
       IN /\ post' = [post EXCEPT !.metadata.post.tags = r.val]
          /\ ret' = Call("remove_tag", tag, r)
    /\ UNCHANGED <<fs, pc, work, net>>

AddKeyword(keyword) ==
    /\ Idle /\ Loaded
    /\ LET r == add_keyword(post.metadata.opengraph.keywords, keyword)
       IN /\ post' = [post EXCEPT !.metadata.opengraph.keywords = r.val]
          /\ ret' = Call("add_keyword", keyword, r)
    /\ UNCHANGED <<fs, pc, work, net>>

RemoveKeyword(keyword) ==
    /\ Idle /\ Loaded
    /\ LET r == remove_keyword(post.metadata.opengraph.keywords, keyword)
       IN /\ post' = [post EXCEPT !.metadata.opengraph.keywords = r.val]
          /\ ret' = Call("remove_keyword", keyword, r)
    /\ UNCHANGED <<fs, pc, work, net>>

Save(fault) ==
    /\ Idle /\ Loaded
    /\ LET r == PostSave(fs, post, fault)
       IN /\ fs' = r.val
          /\ ret' = Call("save", fault, r)
    /\ UNCHANGED <<post, pc, work, net>>

NoCall == [op |-> "none", arg |-> 0, ok |-> TRUE, err |-> ""]
NoWork == [none |-> TRUE]

Init ==
    /\ fs \in InitialDisks
    /\ post = NoPost
    /\ pc = "idle"
    /\ ret = NoCall
    /\ work = NoWork
    /\ net = <<>>

Next ==
    \/ \E title \in Titles, today \in Clock : New(title, today)
    \/ \E path \in {PostPath, Nowhere} : Load(path)
    \/ \E tag \in Words : AddTag(tag)
    \/ \E tag \in Words : RemoveTag(tag)
    \/ \E keyword \in KeyWords : AddKeyword(keyword)
    \/ \E keyword \in KeyWords : RemoveKeyword(keyword)
    \/ \E fault \in SaveFaults : Save(fault)

Spec == Init /\ [][Next]_vars

---------------------------------------------------------------------------
(* Post::new over titles and dates *)

\* longest title
MaxTitle == 3

TitleChars == {"M", "y", " ", "!", "1"}
AllTitles == UNION {[1..n -> TitleChars] : n \in 0..MaxTitle}
AllClocks == {[year |-> y, month |-> m] : y \in {987, 2024}, m \in {3, 11}}

InitNew ==
    /\ fs \in {EmptyFs, SavedDisk(ThePost)}
    /\ post = NoPost
    /\ pc = "idle"
    /\ ret = NoCall
    /\ work = NoWork
    /\ net = <<>>

\* main: one Post::new per process
NextNew == ~Loaded /\ \E title \in AllTitles, today \in AllClocks : New(title, today)

SpecNew == InitNew /\ [][NextNew]_vars

---------------------------------------------------------------------------
(* Header images: Metadata::header_path, header_exists, choose_header *)

header_path(blog_path) == Join(Join(blog_path, "images"), "header")
candidates_path(blog_path) == Join(header_path(blog_path), "candidates")
\* the image named with the 0-based index of enumerate()
candidate_picture_zero_based(blog_path, index) ==
    Join(candidates_path(blog_path), "header_" \o ToString(index - 1) \o ".jpg")

candidate_picture(blog_path, index) ==
    Join(candidates_path(blog_path), "header_" \o ToString(index) \o ".jpg")
\* the sidecar named with the 0-based index of enumerate()
candidate_metadata_zero_based(blog_path, index) ==
    Join(candidates_path(blog_path), "header_" \o ToString(index - 1) \o ".toml")

candidate_metadata(blog_path, index) ==
    Join(candidates_path(blog_path), "header_" \o ToString(index) \o ".toml")
chosen_picture(blog_path) == Join(header_path(blog_path), "header.jpg")
chosen_metadata(blog_path) == Join(header_path(blog_path), "header.toml")

header_exists(f, path) ==
    IF IsFile(f, chosen_picture(path)) THEN Some(chosen_picture(path)) ELSE None

\* choose_header that returns an error where the code only warns
choose_header_refuses_chosen(f, path, index) ==
    IF header_exists(f, path) # None
    THEN Err("A header file has already been selected", f)
    ELSE IF ~IsFile(f, candidate_picture(path, index))
    THEN Err("No candidate header with the id could be found", f)
    ELSE IF ~IsFile(f, candidate_metadata(path, index))
    THEN Err("The metadata file for candidate header could not be found", f)
    ELSE LET r1 == FsCopy(f, candidate_picture(path, index), chosen_picture(path))
         IN IF ~r1.ok THEN r1
            ELSE FsCopy(r1.val, candidate_metadata(path, index), chosen_metadata(path))

\* choose_header without the test of the sidecar
choose_header_picture_only(f, path, index) ==
    IF ~IsFile(f, candidate_picture(path, index))
    THEN Err("No candidate header with the id could be found", f)
    ELSE LET r1 == FsCopy(f, candidate_picture(path, index), chosen_picture(path))
         IN IF ~r1.ok \/ ~IsFile(f, candidate_metadata(path, index)) THEN r1
            ELSE FsCopy(r1.val, candidate_metadata(path, index), chosen_metadata(path))

choose_header(f, path, index) ==
    IF ~IsFile(f, candidate_picture(path, index))
    THEN Err("No candidate header with the id could be found", f)
    ELSE IF ~IsFile(f, candidate_metadata(path, index))
    THEN Err("The metadata file for candidate header could not be found", f)
    ELSE LET r1 == FsCopy(f, candidate_picture(path, index), chosen_picture(path))
         IN IF ~r1.ok THEN r1
            ELSE FsCopy(r1.val, candidate_metadata(path, index), chosen_metadata(path))

---------------------------------------------------------------------------
(* Header images: the image service and header::get_new_candidates *)

\* a PexelPicture: its page url and the size variants of src
Picture(id, variants) == [url |-> id, src |-> [v \in variants |-> id \o "/" \o v]]

PexelPictures ==
    { Picture("a", {"landscape", "portrait"}),
      Picture("b", {"landscape"}),
      Picture("c", {"portrait"}) }

\* lists of up to n different elements of S
SeqsUpTo(S, n) ==
    {ph \in UNION {[1..k -> S] : k \in 0..n} :
        \A i, j \in 1..Len(ph) : ph[i] = ph[j] => i = j}

\* bodies of a response that is not 200 OK
Bodies == {"quota", "bad key"}

\* what the search request may come back with; the body of a response that is
\* not 200 OK is None when response.text() fails
Responses ==
    {[status |-> "ok", photos |-> ph] : ph \in SeqsUpTo(PexelPictures, MaxPhotos)}
      \cup {[status |-> "send_error"], [status |-> "bad_json"]}
      \cup {[status |-> "forbidden", body |-> b] : b \in {None} \cup {Some(t) : t \in Bodies}}

\* what a fetch may meet before its loop: no PEXEL_API_KEY, candidates/ that
\* cannot be created, or a response to the search request
Unsent == [status |-> "unsent"]
NoApiKey == [api_key |-> FALSE, create_fault |-> FALSE, response |-> Unsent]
NoCandidatesDir == [api_key |-> TRUE, create_fault |-> TRUE, response |-> Unsent]
Answered(r) == [api_key |-> TRUE, create_fault |-> FALSE, response |-> r]
FetchEnvs == {NoApiKey, NoCandidatesDir} \cup {Answered(r) : r \in Responses}

\* toml::to_string(&image)
SerPicture(image) == Toml(image)

RECURSIVE JoinWith(_, _)
JoinWith(list, sep) ==
    IF list = <<>> THEN ""
    ELSE IF Len(list) = 1 THEN list[1]
    ELSE list[1] \o sep \o JoinWith(Tail(list), sep)

SearchRequest(keywords, limit) ==
    [url |-> "https://api.pexels.com/v1/search",
     query |-> JoinWith(keywords, ", "), per_page |-> ToString(limit)]
ImageRequest(image_url) == [url |-> image_url]

\* what the step of the loop for one picture may meet
PictureOutcomes == {"ok", "download_error", "bytes_error", "write_image_error",
                    "serialize_error", "write_metadata_error"}

Amounts == {0, MaxPhotos}
Indices == 0..MaxPhotos

---------------------------------------------------------------------------
(* Commands on the header image *)

ChooseHeader(index) ==
    /\ Idle /\ Loaded
    /\ LET r == choose_header(fs, post.path, index)
       IN /\ fs' = r.val
          /\ ret' = [op |-> "choose_header", arg |-> index, ok |-> r.ok, err |-> r.err,
                     warned |-> header_exists(fs, post.path) # None]
    /\ UNCHANGED <<post, pc, work, net>>

FailFetch(arg, e) ==
    /\ ret' = Call("fetch", arg, Err(e, 0))
    /\ pc' = "idle"
    /\ work' = NoWork

\* fetch without the test of the keywords
has_no_keyword_unchecked(keywords) == FALSE

\* self.opengraph.keywords.is_empty()
has_no_keyword(keywords) == keywords = <<>>

\* what the call was given and what its search request came back with
Saw(amount, api_key, response) ==
    [amount |-> amount, api_key |-> api_key, status |-> response.status,
     body |-> IF response.status = "forbidden" THEN response.body ELSE None]

\* the error of a response that is not 200 OK, without its body
fetch_failed_blank(body) == "Failed to fetch image: "

\* format!("Failed to fetch image: {}", response.text().await...?)
fetch_failed(body) == "Failed to fetch image: " \o body

\* fetch_new_header_images up to the first turn of the loop of get_new_candidates
FetchStart(amount, env) ==
    /\ Idle /\ Loaded
    /\ env.create_fault => ~Exists(fs, candidates_path(post.path))
    /\ LET unsent == Saw(amount, env.api_key, Unsent)
           api_key == env.api_key
           made == create_path(fs, candidates_path(post.path), env.create_fault)
           response == env.response
           arg == Saw(amount, env.api_key, env.response)
       IN IF has_no_keyword(Keywords(post))
          THEN /\ FailFetch(unsent, "Unable to fetch image for the blog post; The post has no keyword")
               /\ net' = <<>>
               /\ UNCHANGED fs
          ELSE IF ~api_key
          THEN /\ FailFetch(unsent, "Missing PEXEL_API_KEY")
               /\ net' = <<>>
               /\ UNCHANGED fs
          ELSE IF ~made.ok
          THEN /\ FailFetch(unsent, made.err)
               /\ net' = <<>>
               /\ UNCHANGED fs
          ELSE /\ fs' = made.val
               /\ net' = <<SearchRequest(Keywords(post), amount)>>
               /\ IF response.status = "ok"
                  THEN /\ work' = [photos |-> response.photos, index |-> 0, images |-> <<>>]
                       /\ pc' = "fetch_loop"
                       /\ ret' = Running("fetch", arg)
                  ELSE IF response.status = "forbidden"
                  THEN FailFetch(arg, IF response.body = None THEN "body_error"
                                      ELSE fetch_failed(response.body[1]))
                  ELSE FailFetch(arg, response.status)
    /\ UNCHANGED post

\* one turn of the loop: the picture at work.index (0-based), files index + 1
FetchPicture(outcome) ==
    /\ pc = "fetch_loop"
    /\ work.index < Len(work.photos)
    /\ LET image == work.photos[work.index + 1]
           image_path == candidate_picture(post.path, work.index + 1)
           image_metadata == candidate_metadata(post.path, work.index + 1)
           has_url == "landscape" \in DOMAIN image.src
           image_url == image.src["landscape"]
           w1 == FsWrite(fs, image_path, Jpg(image_url), outcome = "write_image_error")
           w2 == FsWrite(w1.val, image_metadata, SerPicture(image),
                         outcome = "write_metadata_error")
       IN IF ~has_url
          THEN /\ FailFetch(ret.arg, "Unable to retreive landscape image from pexel picture")
               /\ UNCHANGED <<fs, net>>
          ELSE /\ net' = Append(net, ImageRequest(image_url))
               /\ IF outcome \in {"download_error", "bytes_error"}
                  THEN FailFetch(ret.arg, outcome) /\ UNCHANGED fs
                  ELSE IF ~w1.ok
                  THEN FailFetch(ret.arg, w1.err) /\ UNCHANGED fs
                  ELSE IF outcome = "serialize_error"
                  THEN FailFetch(ret.arg, outcome) /\ fs' = w1.val
                  ELSE IF ~w2.ok
                  THEN FailFetch(ret.arg, w2.err) /\ fs' = w1.val
                  ELSE /\ fs' = w2.val
                       /\ work' = [work EXCEPT !.index = @ + 1,
                                               !.images = Append(@, image_path)]
                       /\ UNCHANGED <<pc, ret>>
    /\ UNCHANGED post

\* the loop is over: Ok(images)
FetchReturn ==
    /\ pc = "fetch_loop"
    /\ work.index = Len(work.photos)
    /\ pc' = "idle"
    /\ ret' = [op |-> "fetch", arg |-> ret.arg, ok |-> TRUE, err |-> "",
               images |-> work.images]
    /\ work' = NoWork
    /\ UNCHANGED <<fs, post, net>>

HeaderPosts ==
    {[ThePost EXCEPT !.metadata.opengraph.keywords = kw] : kw \in {<<>>, <<"sea", "sky">>}}

InitHeader ==
    /\ post \in HeaderPosts
    /\ fs = SavedDisk(post)
    /\ pc = "idle"
    /\ ret = NoCall
    /\ work = NoWork
    /\ net = <<>>

NextHeader ==
    \/ \E amount \in Amounts, env \in FetchEnvs : FetchStart(amount, env)
    \/ \E outcome \in PictureOutcomes : FetchPicture(outcome)
    \/ FetchReturn
    \/ \E index \in Indices : ChooseHeader(index)

SpecHeader == InitHeader /\ [][NextHeader]_vars

---------------------------------------------------------------------------
(* Post::build and utils::copy_dir_all *)

\* markdown::to_html_with_options(&self.content, &Options::gfm()): the
\* rendering is the library's; the model keeps what was rendered
Html(markdown) == [fmt |-> "html", rendering_of |-> markdown]

dist_path(path) == Join(path, "dist")
index_path(path) == Join(dist_path(path), "index.html")
images_path(path) == Join(path, "images")
output_images_path(path) == Join(dist_path(path), "images")

\* the entries fs::read_dir meets under src, at any depth
Entries(f, src) == {p \in DOMAIN f : IsUnder(p, src)}
Rebase(p, src, dst) == dst \o SubSeq(p, Len(src) + 1, Len(p))

\* entries copied when a walk stops early: read_dir fixes no order, but an
\* entry is only reached through its directory
WalkPrefixes(f, src) ==
    {c \in SUBSET Entries(f, src) :
        \A p \in c : Parent(p) # src => Parent(p) \in c}

\* the destination after the entries in copied went over: directories are
\* created where missing, files are written over what was there
CopyEntries(f, src, dst, copied) ==
    [q \in DOMAIN f \cup {Rebase(p, src, dst) : p \in copied} |->
        IF \E p \in copied : Rebase(p, src, dst) = q
        THEN LET p == CHOOSE p \in copied : Rebase(p, src, dst) = q
             IN IF f[p].kind = "dir" /\ q \in DOMAIN f THEN f[q] ELSE f[p]
        ELSE f[q]]

\* copy_dir_all(src, dst); stop names a walk that an error ends early
copy_dir_all(f, src, dst, fault, stop) ==
    LET made == IF fault = "create_dir_all" THEN Err("io", f) ELSE CreateDirAll(f, dst)
    IN IF ~made.ok THEN Err("Failed to copy images folder", f)
       ELSE IF ~IsDir(made.val, src) THEN Err("Failed to copy images folder", made.val)
       ELSE IF fault = "copy"
       THEN Err("Failed to copy images folder", CopyEntries(made.val, src, dst, stop))
       ELSE Ok(CopyEntries(made.val, src, dst, Entries(made.val, src)))

\* build that saves before it sets the timestamp
with_update_unsaved(p, now) == p

\* self.metadata.post.update = Some(Utc::now())
with_update(p, now) == [p EXCEPT !.metadata.post.update = Some(now)]

\* build: the timestamp and save()
BuildStart(now, fault) ==
    /\ Idle /\ Loaded
    /\ post' = with_update(post, now)
    /\ LET r == PostSave(fs, post', fault)
       IN /\ fs' = r.val
          /\ IF r.ok THEN pc' = "build_dist" /\ ret' = Running("build", now)
             ELSE pc' = "idle" /\ ret' = Call("build", now, r)
    /\ UNCHANGED <<work, net>>

\* build: create_path(&output_path)
BuildCreateDist(fault) ==
    /\ pc = "build_dist"
    /\ fault => ~Exists(fs, dist_path(post.path))
    /\ LET r == create_path(fs, dist_path(post.path), fault)
       IN /\ fs' = r.val
          /\ IF r.ok THEN pc' = "build_index" /\ UNCHANGED ret
             ELSE pc' = "idle" /\ ret' = Call("build", ret.arg, r)
    /\ UNCHANGED <<post, work, net>>

\* build: render and write dist/index.html
BuildWriteIndex(fault) ==
    /\ pc = "build_index"
    /\ LET r == FsWrite(fs, index_path(post.path), Html(post.content), fault)
       IN /\ fs' = r.val
          /\ IF r.ok THEN pc' = "build_copy" /\ UNCHANGED ret
             ELSE pc' = "idle"
                  /\ ret' = Call("build", ret.arg, Err("Failed to write output file", 0))
    /\ UNCHANGED <<post, work, net>>

CopyFaults == {"none", "create_dir_all", "copy"}

\* build: copy the images folder, and return
BuildCopyImages(fault, stop) ==
    /\ pc = "build_copy"
    /\ fault = "copy" => stop # Entries(fs, images_path(post.path))
    /\ fault # "copy" => stop = {}
    /\ LET r == copy_dir_all(fs, images_path(post.path), output_images_path(post.path),
                             fault, stop)
       IN /\ fs' = r.val
          /\ ret' = Call("build", ret.arg, r)
    /\ pc' = "idle"
    /\ UNCHANGED <<post, work, net>>

\* a post with a fetched candidate chosen as its header
WithHeader(f, path) ==
    LET made == CreateDirAll(f, candidates_path(path)).val
        w1 == FsWrite(made, candidate_picture(path, 1), Jpg("a/landscape"), FALSE).val
        w2 == FsWrite(w1, candidate_metadata(path, 1),
                      SerPicture(Picture("a", {"landscape"})), FALSE).val
    IN choose_header(w2, path, 1).val

BuildDisks == {SavedDisk(ThePost), WithHeader(SavedDisk(ThePost), PostPath)}

InitBuild ==
    /\ fs \in BuildDisks
    /\ post = NoPost
    /\ pc = "idle"
    /\ ret = NoCall
    /\ work = NoWork
    /\ net = <<>>

NextBuild ==
    \/ Load(PostPath)
    \/ \E now \in Times, fault \in SaveFaults : BuildStart(now, fault)
    \/ \E fault \in BOOLEAN : BuildCreateDist(fault)
    \/ \E fault \in BOOLEAN : BuildWriteIndex(fault)
    \/ \E fault \in CopyFaults, stop \in WalkPrefixes(fs, images_path(PostPath)) :
          BuildCopyImages(fault, stop)

SpecBuild == InitBuild /\ [][NextBuild]_vars

---------------------------------------------------------------------------
(* main: handle_tag_command and handle_keyword_command, one process each *)

\* most values on one command line
MaxValues == 3

\* the Vec<String> of clap: no value, or some, with repeats
ValueLists(S) == UNION {[1..n -> S] : n \in 0..MaxValues}

SubCommands == {"tag add", "tag remove", "keyword add", "keyword remove"}
ValuesOf(subcmd) ==
    IF subcmd \in {"tag add", "tag remove"} THEN ValueLists(Words) ELSE ValueLists(KeyWords)

\* the body of the loop for one value: the call on the Post's list
apply_value(p, subcmd, value) ==
    LET r == CASE subcmd = "tag add" -> add_tag(Tags(p), value)
               [] subcmd = "tag remove" -> remove_tag(Tags(p), value)
               [] subcmd = "keyword add" -> add_keyword(Keywords(p), value)
               [] subcmd = "keyword remove" -> remove_keyword(Keywords(p), value)
    IN [r EXCEPT !.val = IF subcmd \in {"tag add", "tag remove"}
                         THEN [p EXCEPT !.metadata.post.tags = r.val]
                         ELSE [p EXCEPT !.metadata.opengraph.keywords = r.val]]

\* Post::load(command.post), or exit(1)
CommandStart(subcmd, values) ==
    /\ Idle
    /\ LET r == PostLoad(fs, PostPath)
       IN IF r.ok
          THEN /\ post' = r.val
               /\ pc' = "values"
               /\ work' = [subcmd |-> subcmd, values |-> values, next |-> 1,
                           loaded |-> r.val, printed |-> <<>>]
               /\ ret' = Running(subcmd, values)
          ELSE /\ post' = NoPost
               /\ pc' = "idle"
               /\ work' = NoWork
               /\ ret' = Call(subcmd, values, Err("Failed to load post: " \o r.err, 0))
    /\ UNCHANGED <<fs, net>>

\* a loop that a failed value ends (break in the Err arm)
next_value_break(next, r, count) == IF r.ok THEN next + 1 ELSE count + 1

\* the for loop: the value after this one, whatever this one returned
next_value(next, r, count) == next + 1

\* one turn of `for tag in tags` / `for kw in keywords`
CommandValue ==
    /\ pc = "values"
    /\ work.next <= Len(work.values)
    /\ LET r == apply_value(post, work.subcmd, work.values[work.next])
       IN /\ post' = r.val
          /\ work' = [work EXCEPT !.next = next_value(@, r, Len(work.values)),
                                  !.printed = IF r.ok THEN @ ELSE Append(@, r.err)]
    /\ UNCHANGED <<fs, pc, ret, net>>

\* post.save() after the loop, and the end of the process
CommandSave(fault) ==
    /\ pc = "values"
    /\ work.next = Len(work.values) + 1
    /\ LET r == PostSave(fs, post, fault)
       IN /\ fs' = r.val
          /\ ret' = [op |-> work.subcmd, arg |-> work.values, ok |-> r.ok,
                     err |-> IF r.ok THEN "" ELSE "Unable to save post: " \o r.err,
                     printed |-> work.printed]
    /\ pc' = "idle"
    /\ post' = NoPost
    /\ work' = NoWork
    /\ UNCHANGED net

InitCommand ==
    /\ fs \in InitialDisks
    /\ post = NoPost
    /\ pc = "idle"
    /\ ret = NoCall
    /\ work = NoWork
    /\ net = <<>>

NextCommand ==
    \/ \E subcmd \in SubCommands : \E values \in ValuesOf(subcmd) :
          CommandStart(subcmd, values)
    \/ CommandValue
    \/ \E fault \in SaveFaults : CommandSave(fault)

SpecCommand == InitCommand /\ [][NextCommand]_vars

---------------------------------------------------------------------------
(* Claims on the tag and keyword lists, load and save *)

Range(list) == {list[i] : i \in 1..Len(list)}
NoDup(list) == \A i, j \in 1..Len(list) : list[i] = list[j] => i = j

AddEffect(L, x, ok, L2) ==
    IF x \notin Range(L) THEN ok /\ L2 = Append(L, x) ELSE ~ok /\ L2 = L

\* C1: add_tag(x) / add_keyword(x) on a list without x succeeds and appends x
\* at the end; on a list holding x it returns an error and leaves the list as
\* it was.
C1_AddAppendsOrRejects ==
    [][/\ ret'.op = "add_tag" => AddEffect(Tags(post), ret'.arg, ret'.ok, Tags(post'))
       /\ ret'.op = "add_keyword" =>
              AddEffect(Keywords(post), ret'.arg, ret'.ok, Keywords(post'))]_vars

\* two adds of different values on the empty list of a new post gave [x, y]
C1_Witness ==
    /\ ret.op = "add_tag" /\ ret.ok /\ ret.arg = "Rust"
    /\ Tags(post) = <<"rust", "Rust">>
    /\ post.metadata.post.author = ""

RemoveEffect(L, x, ok, L2) ==
    IF x \notin Range(L) THEN ~ok /\ L2 = L
    ELSE /\ ok
         /\ \E i \in 1..Len(L) :
               /\ L[i] = x
               /\ \A j \in 1..(i - 1) : L[j] # x
               /\ Len(L2) = Len(L) - 1
               /\ \A j \in 1..Len(L2) : L2[j] = IF j < i THEN L[j] ELSE L[j + 1]

\* C2: remove_tag(x) / remove_keyword(x) on a list without x returns an error
\* and leaves the list as it was; on a list holding x it succeeds and deletes
\* the first occurrence of x, the other entries keeping their order.
C2_RemoveFirstOrRejects ==
    [][/\ ret'.op = "remove_tag" =>
              RemoveEffect(Tags(post), ret'.arg, ret'.ok, Tags(post'))
       /\ ret'.op = "remove_keyword" =>
              RemoveEffect(Keywords(post), ret'.arg, ret'.ok, Keywords(post'))]_vars

\* a value occurring twice was removed once: the later occurrence stays
C2_Witness ==
    /\ ret.op = "remove_tag" /\ ret.ok /\ ret.arg = "rust"
    /\ Tags(post) = <<"Rust", "rust">>

\* C3: the tags and the keywords of the Post a command holds have no
\* duplicate entries.
C3_NoDuplicates ==
    Loaded => NoDup(Tags(post)) /\ NoDup(Keywords(post))

\* C4: after a save that succeeded, load of the post's path succeeds and gives
\* a Post with the same content and metadata, also over files of an earlier
\* save.
C4_SaveLoadRoundTrip ==
    (ret.op = "save" /\ ret.ok) =>
        LET r == PostLoad(fs, post.path)
        IN r.ok /\ r.val.content = post.content /\ r.val.metadata = post.metadata

\* a post loaded from an edited file, changed and saved over that file
C4_Witness ==
    /\ ret.op = "save" /\ ret.ok
    /\ post.metadata.post.published_date = Some(1)
    /\ Tags(post) = <<"Rust">>
    /\ Keywords(post) = <<"sea", "sky">>

Unloadable(f, path) ==
    \/ ~IsFile(f, Join(path, "content.md"))
    \/ ~IsFile(f, Join(path, "metadata.toml"))
    \/ ~ParsesAsMetadata(f[Join(path, "metadata.toml")].data)

\* C5: load fails with "Blog post does not exist" on a missing path, fails
\* and returns no Post when content.md or metadata.toml cannot be read or
\* metadata.toml does not parse, and never writes to the filesystem.
C5_LoadAllOrNothing ==
    [][ret'.op = "load" =>
          /\ fs' = fs
          /\ ~Exists(fs, ret'.arg) =>
                ~ret'.ok /\ ret'.err = "Blog post does not exist"
          /\ Unloadable(fs, ret'.arg) => ~ret'.ok
          /\ ~ret'.ok => post' = NoPost
          /\ ret'.ok => /\ post'.content = fs[Join(ret'.arg, "content.md")].data.text
                        /\ SerMetadata(post'.metadata)
                             = fs[Join(ret'.arg, "metadata.toml")].data]_vars

\* a load that found the directory and content.md but a metadata.toml that
\* does not parse
C5_Witness ==
    /\ ret.op = "load" /\ ~ret.ok /\ ret.err = "Failed to parse metadata file"
    /\ post = NoPost
    /\ IsFile(fs, Join(PostPath, "content.md"))

---------------------------------------------------------------------------
(* Claims on the header image *)

Absent == [kind |-> "absent"]
Node(f, p) == IF p \in DOMAIN f THEN f[p] ELSE Absent

HeaderDir == PostPath \o <<"images", "header">>
CandidatesDir == HeaderDir \o <<"candidates">>
HeaderJpg == HeaderDir \o <<"header.jpg">>
HeaderToml == HeaderDir \o <<"header.toml">>
CandidateJpg(n) == CandidatesDir \o <<"header_" \o ToString(n) \o ".jpg">>
CandidateToml(n) == CandidatesDir \o <<"header_" \o ToString(n) \o ".toml">>

NoKeywordError == "Unable to fetch image for the blog post; The post has no keyword"

\* C6: a fetch on a post without keywords fails with the "no keyword" error,
\* sends no request and leaves the filesystem as it was, for every amount and
\* with or without the API key.
C6_NoKeywordNoFetch ==
    [][(pc = "idle" /\ ret'.op = "fetch" /\ Keywords(post) = <<>>) =>
          /\ pc' = "idle"
          /\ ~ret'.ok /\ ret'.err = NoKeywordError
          /\ net' = <<>>
          /\ fs' = fs]_vars

\* a fetch of some pictures with the API key set, refused for lack of keywords
C6_Witness ==
    /\ ret.op = "fetch" /\ ret.err = NoKeywordError
    /\ ret.arg.api_key /\ ret.arg.amount = MaxPhotos
    /\ Keywords(post) = <<>>
    /\ ~Exists(fs, CandidatesDir)

NoCandidateErrors ==
    {"No candidate header with the id could be found",
     "The metadata file for candidate header could not be found"}

\* C7: choose_header(index) fails with a "no candidate" error when the
\* candidate's image or its sidecar is missing, and then header.jpg and
\* header.toml are as they were before the call.
C7_ChooseNeedsBothFiles ==
    [][(ret'.op = "choose_header"
           /\ (~IsFile(fs, CandidateJpg(ret'.arg)) \/ ~IsFile(fs, CandidateToml(ret'.arg)))) =>
          /\ ~ret'.ok /\ ret'.err \in NoCandidateErrors
          /\ Node(fs', HeaderJpg) = Node(fs, HeaderJpg)
          /\ Node(fs', HeaderToml) = Node(fs, HeaderToml)]_vars

\* a candidate whose image is on disk and whose sidecar is not was refused,
\* and the header chosen earlier is still there
C7_Witness ==
    /\ ret.op = "choose_header" /\ ~ret.ok
    /\ ret.err = "The metadata file for candidate header could not be found"
    /\ IsFile(fs, CandidateJpg(ret.arg))
    /\ IsFile(fs, HeaderJpg) /\ IsFile(fs, HeaderToml)

HoldsPicture(f, n, image) ==
    /\ "landscape" \in DOMAIN image.src
    /\ Node(f, CandidateJpg(n)) = File(Jpg(image.src["landscape"]))
    /\ Node(f, CandidateToml(n)) = File(Toml(image))

\* C9: a fetch takes the pictures of the response in order, 1-based: the step
\* for picture i writes header_i.jpg, then header_i.toml, and nothing else. A
\* step that fails ends the fetch with an error, with the files of the
\* pictures before it on disk and nothing written for the pictures after it;
\* a fetch no step of which fails returns header_1.jpg .. header_k.jpg.
C9_FetchInOrder ==
    [][pc = "fetch_loop" =>
          LET i == work.index + 1
              k == Len(work.photos)
          IN /\ \A p \in DOMAIN fs \cup DOMAIN fs' :
                   p \notin {CandidateJpg(i), CandidateToml(i)} => Node(fs', p) = Node(fs, p)
             /\ \A n \in 1..work.index : HoldsPicture(fs', n, work.photos[n])
             /\ Node(fs', CandidateToml(i)) # Node(fs, CandidateToml(i)) =>
                   HoldsPicture(fs', i, work.photos[i])
             /\ pc' \in {"idle", "fetch_loop"}
             /\ pc' = "fetch_loop" =>
                   /\ i <= k /\ work'.index = i /\ work'.photos = work.photos
                   /\ HoldsPicture(fs', i, work.photos[i])
             /\ pc' = "idle" /\ i <= k => ~ret'.ok
             /\ pc' = "idle" /\ ret'.ok =>
                   /\ i = k + 1 /\ fs' = fs
                   /\ ret'.images = [n \in 1..k |-> CandidateJpg(n)]
             /\ (i <= k /\ "landscape" \notin DOMAIN work.photos[i].src) =>
                   pc' = "idle" /\ ~ret'.ok /\ fs' = fs]_vars

\* the step for the second picture failed after the first was written
C9_Witness ==
    /\ ret.op = "fetch" /\ ~ret.ok /\ pc = "idle"
    /\ ret.err = "Unable to retreive landscape image from pexel picture"
    /\ Len(net) = 2
    /\ IsFile(fs, CandidateJpg(1)) /\ IsFile(fs, CandidateToml(1))
    /\ ~Exists(fs, CandidateJpg(2))

---------------------------------------------------------------------------
(* Claims on build *)

DistDir == PostPath \o <<"dist">>
DistIndex == DistDir \o <<"index.html">>
DistImages == DistDir \o <<"images">>
ImagesDir == PostPath \o <<"images">>

InDist(p) == p = DistDir \/ IsUnder(p, DistDir)
InDistImages(p) == p = DistImages \/ IsUnder(p, DistImages)
Changed(f, g) == {p \in DOMAIN f \cup DOMAIN g : Node(f, p) # Node(g, p)}

\* metadata.toml on disk parses and carries update = now
Stamped(f, now) ==
    LET r == PostLoad(f, PostPath)
    IN r.ok /\ r.val.metadata.post.update = Some(now)

\* C10: build sets metadata.post.update and saves before any output: a build
\* whose save fails leaves dist/ untouched; then come dist/, dist/index.html
\* and the copy of images/ to dist/images, in this order; a step that fails
\* ends the build with an error, with the new timestamp in metadata.toml and
\* the output written so far on disk.
C10_BuildSavesThenWrites ==
    [][ret'.op = "build" =>
          LET now == ret'.arg
              failed == pc' = "idle" /\ ~ret'.ok
          IN /\ post'.metadata.post.update = Some(now)
             /\ ret'.ok => pc = "build_copy"
             /\ failed => ret'.err # ""
             /\ pc = "idle" =>
                   /\ \A p \in Changed(fs, fs') : ~InDist(p)
                   /\ pc' \in {"idle", "build_dist"}
                   /\ pc' = "build_dist" => Stamped(fs', now)
             /\ pc # "idle" =>
                   /\ Stamped(fs, now) /\ Stamped(fs', now)
                   /\ \A p \in Changed(fs, fs') : InDist(p)
                   /\ \A p \in DOMAIN fs : InDist(p) => p \in DOMAIN fs'
             /\ pc = "build_dist" =>
                   /\ Changed(fs, fs') \subseteq {DistDir}
                   /\ pc' \in {"idle", "build_index"}
                   /\ pc' = "build_index" => IsDir(fs', DistDir)
             /\ pc = "build_index" =>
                   /\ IsDir(fs, DistDir)
                   /\ Changed(fs, fs') \subseteq {DistIndex}
                   /\ pc' \in {"idle", "build_copy"}
                   /\ pc' = "build_copy" => Node(fs', DistIndex) = File(Html(post.content))
             /\ pc = "build_copy" =>
                   /\ Node(fs, DistIndex) = File(Html(post.content))
                   /\ \A p \in Changed(fs, fs') : InDistImages(p)
                   /\ pc' = "idle"
                   /\ ret'.ok =>
                         \A p \in DOMAIN fs :
                            IsUnder(p, ImagesDir) =>
                               LET q == DistImages \o SubSeq(p, Len(ImagesDir) + 1, Len(p))
                               IN Node(fs', q) = fs[p]]_vars

\* the copy of images/ failed part-way: index.html and one copied image are
\* on disk, and metadata.toml has the timestamp of this build
C10_Witness ==
    /\ ret.op = "build" /\ ~ret.ok /\ pc = "idle"
    /\ ret.err = "Failed to copy images folder"
    /\ Stamped(fs, ret.arg)
    /\ IsFile(fs, DistIndex)
    /\ IsFile(fs, DistImages \o <<"header", "header.jpg">>)
    /\ ~Exists(fs, DistImages \o <<"header", "header.toml">>)

---------------------------------------------------------------------------
(* Claims on the commands of main *)

AddOne(L, x) == IF x \in Range(L) THEN L ELSE Append(L, x)
RemoveOne(L, x) ==
    IF x \notin Range(L) THEN L
    ELSE LET i == CHOOSE i \in 1..Len(L) : L[i] = x /\ \A j \in 1..(i - 1) : L[j] # x
         IN [j \in 1..(Len(L) - 1) |-> IF j < i THEN L[j] ELSE L[j + 1]]

IsAdd(subcmd) == subcmd \in {"tag add", "keyword add"}
IsTag(subcmd) == subcmd \in {"tag add", "tag remove"}

\* the list after the values of vs, each applying or failing on its own
RECURSIVE ApplyAll(_, _, _)
ApplyAll(subcmd, L, vs) ==
    IF vs = <<>> THEN L
    ELSE ApplyAll(subcmd,
                  IF IsAdd(subcmd) THEN AddOne(L, Head(vs)) ELSE RemoveOne(L, Head(vs)),
                  Tail(vs))

\* the values of vs that fail: a duplicate on add, an absent one on remove
Failing(subcmd, L, vs) ==
    {i \in 1..Len(vs) :
        LET before == ApplyAll(subcmd, L, SubSeq(vs, 1, i - 1))
        IN IF IsAdd(subcmd) THEN vs[i] \in Range(before) ELSE vs[i] \notin Range(before)}

ListOf(subcmd, m) == IF IsTag(subcmd) THEN m.post.tags ELSE m.opengraph.keywords
OtherListOf(subcmd, m) == IF IsTag(subcmd) THEN m.opengraph.keywords ELSE m.post.tags

\* the lists in metadata.toml as it is on disk
OnDisk(f) ==
    LET doc == f[PostPath \o <<"metadata.toml">>].data.doc
    IN [post |-> [tags |-> doc["post"]["tags"]],
        opengraph |-> [keywords |-> doc["opengraph"]["keywords"]]]

\* C11: a tag or keyword add/remove command on a loadable post applies its
\* values v1..vn in order; a value that fails (a duplicate on add, an absent
\* one on remove) is reported and the next value is applied all the same;
\* nothing is written before the last value, then save() is called once, and
\* after a save that succeeded the list on disk is the loaded list with the
\* succeeding operations applied in order.
C11_EveryValueThenOneSave ==
    [][pc = "values" =>
          LET subcmd == work.subcmd
              vs == work.values
              n == Len(vs)
              loaded == ListOf(subcmd, work.loaded.metadata)
              applied == SubSeq(vs, 1, work.next - 1)
          IN /\ work.next \in 1..(n + 1)
             /\ ListOf(subcmd, post.metadata) = ApplyAll(subcmd, loaded, applied)
             /\ Len(work.printed) = Cardinality(Failing(subcmd, loaded, applied))
             /\ work.next <= n =>
                   /\ pc' = "values" /\ fs' = fs
                   /\ work'.next = work.next + 1
                   /\ work'.values = vs /\ work'.loaded = work.loaded
             /\ work.next = n + 1 =>
                   /\ pc' = "idle" /\ ret'.op = subcmd /\ ret'.arg = vs
                   /\ Len(ret'.printed) = Cardinality(Failing(subcmd, loaded, vs))
                   /\ ret'.ok =>
                         /\ ListOf(subcmd, OnDisk(fs')) = ApplyAll(subcmd, loaded, vs)
                         /\ OtherListOf(subcmd, OnDisk(fs'))
                              = OtherListOf(subcmd, work.loaded.metadata)]_vars

\* "tag add rust rust Rust" on a post without tags: the second value was
\* refused, the third was added, and the saved list holds both
C11_Witness ==
    /\ ret.op = "tag add" /\ ret.ok /\ pc = "idle"
    /\ ret.arg = <<"rust", "rust", "Rust">>
    /\ Len(ret.printed) = 1
    /\ OnDisk(fs).post.tags = <<"rust", "Rust">>

---------------------------------------------------------------------------
(* Claims on the error of remove *)

\* the text s holds the words w
Has(s, w) == \E i \in 1..(Len(s) - Len(w) + 1) : SubSeq(s, i, i + Len(w) - 1) = w

\* C12: remove_tag / remove_keyword of a value that is not in the list fails
\* with an error that says "not attached" or "not found", and not the
\* "already attached" that add_tag / add_keyword report for a duplicate.
C12_RemoveAbsentSaysNotAttached ==
    [][/\ (ret'.op = "remove_tag" /\ ret'.arg \notin Range(Tags(post))) =>
              /\ ~ret'.ok
              /\ Has(ret'.err, "not attached") \/ Has(ret'.err, "not found")
              /\ ~Has(ret'.err, "already attached")
       /\ (ret'.op = "remove_keyword" /\ ret'.arg \notin Range(Keywords(post))) =>
              /\ ~ret'.ok
              /\ Has(ret'.err, "not attached") \/ Has(ret'.err, "not found")
              /\ ~Has(ret'.err, "already attached")]_vars

---------------------------------------------------------------------------
(* Claims on a fetch whose search fails, and on the candidates it leaves *)

IsCandidateFile(p) == IsUnder(p, CandidatesDir)
ImageRequests(requests) ==
    {i \in 1..Len(requests) : requests[i].url # "https://api.pexels.com/v1/search"}

\* C13: a fetch on a post with keywords that ends before its first picture
\* has failed, has written no candidate image and no sidecar, and has sent no
\* request for an image. Without the API key it fails with "Missing
\* PEXEL_API_KEY", no request sent and the filesystem as it was, candidates/
\* not created; on a response that is not 200 OK and whose body arrived, the
\* error is "Failed to fetch image: " and that body.
C13_FailedSearchWritesNothing ==
    [][(pc = "idle" /\ pc' = "idle" /\ ret'.op = "fetch" /\ Keywords(post) # <<>>) =>
          /\ ~ret'.ok
          /\ \A p \in Changed(fs, fs') : ~IsCandidateFile(p) /\ fs'[p] = Dir
          /\ ImageRequests(net') = {}
          /\ ~ret'.arg.api_key =>
                /\ ret'.err = "Missing PEXEL_API_KEY"
                /\ net' = <<>>
                /\ fs' = fs
          /\ ret'.arg.status # "unsent" => Len(net') = 1
          /\ (ret'.arg.status = "forbidden" /\ ret'.arg.body # None) =>
                ret'.err = "Failed to fetch image: " \o ret'.arg.body[1]]_vars

\* the search came back with an error status and a body: candidates/ was
\* made, nothing is in it, and the error holds the body
C13_Witness ==
    /\ ret.op = "fetch" /\ ~ret.ok /\ pc = "idle"
    /\ ret.arg.status = "forbidden" /\ ret.arg.body = Some("quota")
    /\ ret.err = "Failed to fetch image: quota"
    /\ IsDir(fs, CandidatesDir)
    /\ \A p \in DOMAIN fs : ~IsCandidateFile(p)
    /\ Len(net) = 1

---------------------------------------------------------------------------
(* Claims on Post::new *)

Digit(n, place) == ToString((n \div place) % 10)
Year4(n) == Digit(n, 1000) \o Digit(n, 100) \o Digit(n, 10) \o Digit(n, 1)
Month2(n) == Digit(n, 10) \o Digit(n, 1)

\* C14: right after Post::new(title), whatever the title: tags and keywords
\* are empty, metadata.post.title is the title, the content is "# " and the
\* title, update and published_date are unset, the path is the 4-digit year,
\* the 2-digit month and the slug of the title, and the filesystem is as it
\* was.
C14_NewPost ==
    [][ret'.op = "new" =>
          LET title == Concat(ret'.arg)
              slug == Slugify(ret'.arg)
          IN /\ Tags(post') = <<>>
             /\ Keywords(post') = <<>>
             /\ post'.metadata.post.title = title
             /\ post'.content = "# " \o title
             /\ post'.metadata.post.update = None
             /\ post'.metadata.post.published_date = None
             /\ post'.path = <<Year4(ret'.today.year), Month2(ret'.today.month)>>
                                \o (IF slug = "" THEN <<>> ELSE <<slug>>)
             /\ fs' = fs]_vars

\* a title of a letter, punctuation and a digit, created in March 987 beside
\* an older post
C14_Witness ==
    /\ ret.op = "new" /\ ret.arg = <<"M", "!", "1">>
    /\ post.path = <<"0987", "03", "m-1">>
    /\ post.content = "# M!1"
    /\ post.metadata.post.title = "M!1"
    /\ fs = SavedDisk(ThePost)

---------------------------------------------------------------------------
(* Claims on the chosen header and on the candidates after a fetch *)

\* the two files are the image and the descriptor of one picture
PairOf(jpg, toml) ==
    \E image \in PexelPictures :
        /\ "landscape" \in DOMAIN image.src
        /\ jpg = File(Jpg(image.src["landscape"]))
        /\ toml = File(Toml(image))

\* C15: whatever fetch and choose_header calls came before, failed ones
\* included: when header.jpg and header.toml both exist, header.toml is the
\* descriptor of the picture in header.jpg.
C15_HeaderDescribesPicture ==
    (IsFile(fs, HeaderJpg) /\ IsFile(fs, HeaderToml)) =>
        PairOf(fs[HeaderJpg], fs[HeaderToml])


FetchReturned == pc = "fetch_loop" /\ pc' = "idle" /\ ret'.op = "fetch" /\ ret'.ok

\* the indices a choose_header may be called with after a fetch
ChooseIndices == 0..(MaxPhotos + 1)

\* C16: after a fetch that succeeds with k pictures, candidates/ holds the
\* candidates of that fetch and no other: header_n.jpg and header_n.toml are
\* those of the n-th picture for n in 1..k, no header_n file with n > k from an
\* earlier fetch is left, and choose_header(n) succeeds exactly for n in 1..k.
C16_OnlyThisFetch ==
    [][FetchReturned =>
          LET k == Len(work.photos)
          IN /\ \A n \in 1..k : HoldsPicture(fs', n, work.photos[n])
             /\ \A p \in DOMAIN fs' :
                   IsCandidateFile(p) =>
                      \E n \in 1..k : p \in {CandidateJpg(n), CandidateToml(n)}
             /\ \A n \in ChooseIndices :
                   choose_header(fs', PostPath, n).ok <=> n \in 1..k]_vars

\* C16, amended: after a fetch that succeeds with k pictures, header_n.jpg and
\* header_n.toml are those of the n-th picture for n in 1..k, and
\* choose_header(n) succeeds for every n in 1..k; no step of a fetch removes a
\* file of candidates/, so header_n files with n > k of an earlier fetch are
\* still there, and choose_header(n) succeeds for such an n exactly when both
\* of its files are.
C16_ThisFetchAndOlder ==
    [][/\ (pc = "fetch_loop" \/ ret'.op = "fetch") =>
              \A p \in DOMAIN fs :
                 IsCandidateFile(p) =>
                    /\ p \in DOMAIN fs'
                    /\ Node(fs', p) # fs[p] =>
                          /\ pc = "fetch_loop"
                          /\ p \in {CandidateJpg(work.index + 1),
                                    CandidateToml(work.index + 1)}
       /\ FetchReturned =>
              LET k == Len(work.photos)
              IN /\ \A n \in 1..k :
                       /\ HoldsPicture(fs', n, work.photos[n])
                       /\ choose_header(fs', PostPath, n).ok
                 /\ \A n \in ChooseIndices \ (1..k) :
                       choose_header(fs', PostPath, n).ok
                          <=> IsFile(fs', CandidateJpg(n)) /\ IsFile(fs', CandidateToml(n))]_vars

\* a fetch of one picture returned while the second candidate of an earlier
\* fetch is still in candidates/
C16_Witness ==
    /\ ret.op = "fetch" /\ ret.ok /\ pc = "idle"
    /\ Len(ret.images) = 1
    /\ IsFile(fs, CandidateJpg(2)) /\ IsFile(fs, CandidateToml(2))
    /\ choose_header(fs, PostPath, 2).ok

====
